---- MODULE Spec2Model ----
(***************************************************************************)
(* Model of test_server/test_server.py: the Flask test server of           *)
(* background_downloader.  A request is a small state machine: it is       *)
(* accepted, its handler runs, and (for /files and /upload_binary) a       *)
(* generator or read loop then advances chunk by chunk, with a suspension  *)
(* point at every yield and every time.sleep.                              *)
(*                                                                         *)
(* Text (header values, bodies) is a sequence of one-character strings.    *)
(* A chunk of file data is the interval [off, len] of the file it was read *)
(* from: the byte at offset i of a file is identified by i, so two chunk   *)
(* sequences carry the same bytes exactly when they cover the same offsets *)
(* in the same order.  Durations are in milliseconds; a delay is the exact *)
(* fraction num/den (the code uses floats).                                *)
(***************************************************************************)
EXTENDS Integers, Sequences, FiniteSets, TLC

\* ------------------------------------------------------------------ bounds

\* number of requests that can be in flight together
MaxReqs == 2
\* number of 64 KiB chunks of the largest file on disk
MaxChunks == 3

Reqs == 1 .. MaxReqs

\* ------------------------------------------------------------- text helpers

Min(a, b) == IF a < b THEN a ELSE b
Max(a, b) == IF a > b THEN a ELSE b

DigitChars == <<"0", "1", "2", "3", "4", "5", "6", "7", "8", "9">>
IsDigit(c) == \E i \in 1 .. 10 : DigitChars[i] = c
DigitVal(c) == (CHOOSE i \in 1 .. 10 : DigitChars[i] = c) - 1

RECURSIVE StrNat(_)
StrNat(n) ==
  IF n < 10 THEN <<DigitChars[n + 1]>>
  ELSE StrNat(n \div 10) \o <<DigitChars[(n % 10) + 1]>>

\* str(n) / f'{n}' of a Python int
Str(n) == IF n < 0 THEN <<"-">> \o StrNat(-n) ELSE StrNat(n)

StartsWith(s, p) == Len(s) >= Len(p) /\ SubSeq(s, 1, Len(p)) = p
Drop(s, n) == SubSeq(s, n + 1, Len(s))

\* s.replace(old, ''): every non-overlapping occurrence of old, left to right
RECURSIVE Replace(_, _)
Replace(s, old) ==
  IF s = <<>> THEN <<>>
  ELSE IF StartsWith(s, old) THEN Replace(Drop(s, Len(old)), old)
  ELSE <<s[1]>> \o Replace(Drop(s, 1), old)

\* s.split(sep) for a one-character sep: always at least one part
RECURSIVE SplitFrom(_, _, _)
SplitFrom(s, sep, cur) ==
  IF s = <<>> THEN <<cur>>
  ELSE IF s[1] = sep THEN <<cur>> \o SplitFrom(Drop(s, 1), sep, <<>>)
  ELSE SplitFrom(Drop(s, 1), sep, Append(cur, s[1]))

Split(s, sep) == SplitFrom(s, sep, <<>>)

RECURSIVE StripLeft(_)
StripLeft(s) == IF s # <<>> /\ s[1] = " " THEN StripLeft(Drop(s, 1)) ELSE s

RECURSIVE StripRight(_)
StripRight(s) ==
  IF s # <<>> /\ s[Len(s)] = " " THEN StripRight(SubSeq(s, 1, Len(s) - 1)) ELSE s

RECURSIVE DigitsVal(_, _)
DigitsVal(s, acc) ==
  IF s = <<>> THEN acc ELSE DigitsVal(Drop(s, 1), acc * 10 + DigitVal(s[1]))

\* int(s): surrounding blanks, an optional sign, then one or more digits;
\* anything else raises ValueError (ok = FALSE)
PyInt(s) ==
  LET t == StripRight(StripLeft(s))
      signed == t # <<>> /\ t[1] \in {"+", "-"}
      d == IF signed THEN Drop(t, 1) ELSE t
  IN  IF d # <<>> /\ \A i \in 1 .. Len(d) : IsDigit(d[i])
      THEN [ok |-> TRUE,
            val |-> IF signed /\ t[1] = "-" THEN -DigitsVal(d, 0) ELSE DigitsVal(d, 0)]
      ELSE [ok |-> FALSE, val |-> 0]

\* ------------------------------------------------------------ configuration

\* FILE_DELAYS.get(filename, 0), in milliseconds
FILE_DELAYS(filename) ==
  CASE filename = "5MB-test.ZIP" -> 1000
    [] filename = "57MB-test.ZIP" -> 10000
    [] filename = "1MB-test.bin" -> 500
    [] OTHER -> 0

chunk_size == 64 * 1024

\* The files directory (read only).  The sizes are the environment's: the
\* delayed files span several chunks, plain.bin is small and not in
\* FILE_DELAYS, empty.bin has no bytes, missing.bin is not on disk.
FilesOnDisk == {"5MB-test.ZIP", "57MB-test.ZIP", "1MB-test.bin", "plain.bin", "empty.bin"}
FileNames == FilesOnDisk \cup {"missing.bin"}

\* os.path.exists(file_path)
Exists(filename) == filename \in FilesOnDisk

\* os.path.getsize(file_path)
GetSize(filename) ==
  CASE filename = "5MB-test.ZIP" -> MaxChunks * chunk_size
    [] filename = "57MB-test.ZIP" -> 2 * chunk_size
    [] filename = "1MB-test.bin" -> chunk_size + 1
    [] filename = "plain.bin" -> 10
    [] OTHER -> 0

\* f.read(n) at position pos: the bytes [pos, pos + n) that exist
FileRead(filename, pos, n) ==
  [off |-> pos, len |-> Max(0, Min(n, GetSize(filename) - pos))]

\* the bytes file[a..b] as one chunk sequence laid end to end
Covers(chunks, a, b) ==
  /\ \A i \in 1 .. Len(chunks) : chunks[i].len > 0
  /\ \A i \in 1 .. Len(chunks) - 1 : chunks[i + 1].off = chunks[i].off + chunks[i].len
  /\ IF chunks = <<>> THEN b < a
     ELSE chunks[1].off = a /\ chunks[Len(chunks)].off + chunks[Len(chunks)].len - 1 = b

\* chunks is a prefix of the bytes that start at offset a
PrefixFrom(chunks, a) ==
  /\ \A i \in 1 .. Len(chunks) : chunks[i].len > 0
  /\ \A i \in 1 .. Len(chunks) - 1 : chunks[i + 1].off = chunks[i].off + chunks[i].len
  /\ chunks # <<>> => chunks[1].off = a

RECURSIVE TotalLen(_)
TotalLen(chunks) ==
  IF chunks = <<>> THEN 0 ELSE chunks[1].len + TotalLen(Tail(chunks))

\* ------------------------------------------------------- range resolution

NoHeader == [has |-> FALSE, val |-> <<>>]
Header(v) == [has |-> TRUE, val |-> v]

BYTES_EQ == <<"b", "y", "t", "e", "s", "=">>

\* `if start_byte > end_byte`: the range cannot be served
RangeNotSatisfiableAlt(start_byte, end_byte) == start_byte > end_byte + 1
RangeNotSatisfiable(start_byte, end_byte) == start_byte > end_byte

\* `if end_byte >= total_size: end_byte = total_size - 1`
CapEnd(end_byte, total_size) ==
  IF end_byte >= total_size THEN total_size - 1 ELSE end_byte

\* Lines 298-326 of serve_file: start_byte, end_byte and status_code after
\* the Range header was looked at.  An int() that raises leaves the
\* assignments made before it in place and skips status_code = 206.
ResolveRange(range_header, total_size) ==
  LET dflt == [start_byte |-> 0, end_byte |-> total_size - 1, status_code |-> 200]
  IN
  IF ~range_header.has \/ range_header.val = <<>> THEN dflt
  ELSE
    LET parts == Split(Replace(range_header.val, BYTES_EQ), "-")
    IN
    IF parts[1] = <<>> /\ Len(parts) > 1 /\ parts[2] # <<>>
    THEN
      LET suffix_length == PyInt(parts[2])
      IN  IF ~suffix_length.ok THEN dflt
          ELSE [start_byte |-> total_size - suffix_length.val,
                end_byte |-> total_size - 1,
                status_code |-> 206]
    ELSE
      LET s == IF parts[1] # <<>> THEN PyInt(parts[1]) ELSE [ok |-> TRUE, val |-> 0]
      IN
      IF ~s.ok THEN dflt
      ELSE
        LET e == IF Len(parts) > 1 /\ parts[2] # <<>>
                 THEN PyInt(parts[2])
                 ELSE [ok |-> TRUE, val |-> total_size - 1]
        IN  IF ~e.ok
            THEN [start_byte |-> s.val, end_byte |-> total_size - 1, status_code |-> 200]
            ELSE [start_byte |-> s.val,
                  end_byte |-> CapEnd(e.val, total_size),
                  status_code |-> 206]

\* f'bytes {start_byte}-{end_byte}/{total_size}'
ContentRange(start_byte, end_byte, total_size) ==
  <<"b", "y", "t", "e", "s", " ">> \o Str(start_byte) \o <<"-">> \o Str(end_byte)
    \o <<"/">> \o Str(total_size)

\* num_chunks = (bytes_to_send + chunk_size - 1) // chunk_size
NumChunksAlt(bytes_to_send) == bytes_to_send \div chunk_size
NumChunks(bytes_to_send) == (bytes_to_send + chunk_size - 1) \div chunk_size

\* delay_per_chunk: target_duration / num_chunks when both are positive, else 0
DelayPerChunkAlt(target_duration, num_chunks) ==
  IF target_duration > 0 /\ num_chunks > 0
  THEN [num |-> target_duration, den |-> num_chunks + 1]
  ELSE [num |-> 0, den |-> 1]
DelayPerChunk(target_duration, num_chunks) ==
  IF target_duration > 0 /\ num_chunks > 0
  THEN [num |-> target_duration, den |-> num_chunks]
  ELSE [num |-> 0, den |-> 1]

\* read_size = min(chunk_size, bytes_to_send)
ReadSizeAlt(bytes_to_send) == chunk_size
ReadSize(bytes_to_send) == Min(chunk_size, bytes_to_send)

\* `with open(file_path, 'rb') as f`: the handle is closed however the block
\* is left (normal end, exception, GeneratorExit thrown in at the yield)
WithExitAlt(how) == IF how = "normal" THEN "closed" ELSE "open"
WithExit(how) == "closed"

\* -------------------------------------------------------------------- state

VARIABLES
  pc,         \* pc[r]: where request r is
  req,        \* req[r]: the request as received
  resp,       \* resp[r]: the response the handler returned
  gen,        \* gen[r]: the locals of serve_file.generate and its closure
  fh,         \* fh[r]: the file handle of the stream: "none", "open", "closed"
  emitted,    \* emitted[r]: the chunks the generator has yielded, in order
  received,   \* received[r]: the chunks written to a connected client
  connected,  \* connected[r]: the client is still there
  reads,      \* reads[r]: number of f.read calls
  sleeps,     \* sleeps[r]: number of time.sleep calls that returned
  slept,      \* slept[r]: sum of the numerators of the delays slept
  upl         \* upl[r]: upload_binary's locals

vars == <<pc, req, resp, gen, fh, emitted, received, connected, reads, sleeps, slept, upl>>

Terminal == {"responded", "done", "aborted", "error"}
StreamPcs == {"gen_ready", "loop", "yielded", "written", "sleeping"}

NoReq ==
  [endpoint |-> "none", filename |-> "", range |-> NoHeader, no_content_length |-> FALSE,
   ctype |-> "none", body |-> <<>>]
NoResp ==
  [status |-> 0, content_length |-> NoHeader, content_range |-> NoHeader,
   kind |-> "none", body |-> <<>>, json |-> [t |-> "unset"], data |-> <<>>,
   form |-> [t |-> "unset"]]
NoGen ==
  [start_byte |-> 0, content_length |-> 0, target_duration |-> 0, bytes_to_send |-> 0,
   num_chunks |-> 0, delay_per_chunk |-> [num |-> 0, den |-> 1], pos |-> 0,
   chunk |-> [off |-> 0, len |-> 0]]
NoUpl == [consumed |-> 0, data |-> <<>>, read_lens |-> <<>>]

FixedResp(status, body) == [NoResp EXCEPT !.status = status, !.kind = "fixed", !.body = body]

Init ==
  /\ pc = [r \in Reqs |-> "idle"]
  /\ req = [r \in Reqs |-> NoReq]
  /\ resp = [r \in Reqs |-> NoResp]
  /\ gen = [r \in Reqs |-> NoGen]
  /\ fh = [r \in Reqs |-> "none"]
  /\ emitted = [r \in Reqs |-> <<>>]
  /\ received = [r \in Reqs |-> <<>>]
  /\ connected = [r \in Reqs |-> TRUE]
  /\ reads = [r \in Reqs |-> 0]
  /\ sleeps = [r \in Reqs |-> 0]
  /\ slept = [r \in Reqs |-> 0]
  /\ upl = [r \in Reqs |-> NoUpl]

\* ------------------------------------------------------------------- server

\* app.run(host, port): the development server handles each request in a
\* thread of its own (threaded is its default), so a request is accepted
\* whatever the others are doing
threadedAlt == FALSE
threaded == TRUE

CanAccept(r) ==
  threaded \/ \A q \in Reqs \ {r} : pc[q] \in {"idle"} \cup Terminal

\* a request arrives and is routed
Accept(r, inputs) ==
  /\ pc[r] = "idle"
  /\ CanAccept(r)
  /\ \E i \in inputs : req' = [req EXCEPT ![r] = i]
  /\ pc' = [pc EXCEPT ![r] = "accepted"]
  /\ UNCHANGED <<resp, gen, fh, emitted, received, connected, reads, sleeps, slept, upl>>

\* ---------------------------------------------------------------- /files

FILE_NOT_FOUND == <<"F", "i", "l", "e", " ", "n", "o", "t", " ", "f", "o", "u", "n", "d">>
RANGE_NOT_SATISFIABLE ==
  <<"R", "e", "q", "u", "e", "s", "t", "e", "d", " ", "R", "a", "n", "g", "e", " ",
    "N", "o", "t", " ", "S", "a", "t", "i", "s", "f", "i", "a", "b", "l", "e">>

\* serve_file, up to the Response it returns; the body of a streamed
\* response is the generator, which has not run yet
ServeFile(r) ==
  /\ pc[r] = "accepted"
  /\ req[r].endpoint = "files"
  /\ LET filename == req[r].filename
         total_size == GetSize(filename)
         rr == ResolveRange(req[r].range, total_size)
         content_length == rr.end_byte - rr.start_byte + 1
     IN
     IF ~Exists(filename)
     THEN /\ resp' = [resp EXCEPT ![r] = FixedResp(404, FILE_NOT_FOUND)]
          /\ pc' = [pc EXCEPT ![r] = "responded"]
          /\ gen' = gen
     ELSE IF RangeNotSatisfiable(rr.start_byte, rr.end_byte)
     THEN /\ resp' = [resp EXCEPT ![r] = FixedResp(416, RANGE_NOT_SATISFIABLE)]
          /\ pc' = [pc EXCEPT ![r] = "responded"]
          /\ gen' = gen
     ELSE /\ resp' = [resp EXCEPT ![r] =
                 [NoResp EXCEPT
                    !.status = rr.status_code,
                    !.kind = "stream",
                    !.content_length =
                       IF req[r].no_content_length THEN NoHeader
                       ELSE Header(Str(content_length)),
                    !.content_range =
                       IF rr.status_code = 206
                       THEN Header(ContentRange(rr.start_byte, rr.end_byte, total_size))
                       ELSE NoHeader]]
          /\ gen' = [gen EXCEPT ![r] =
                 [NoGen EXCEPT
                    !.start_byte = rr.start_byte,
                    !.content_length = content_length,
                    !.target_duration = FILE_DELAYS(filename)]]
          /\ pc' = [pc EXCEPT ![r] = "gen_ready"]
  /\ UNCHANGED <<req, fh, emitted, received, connected, reads, sleeps, slept, upl>>

\* generate(), first resumption: open, seek, and the values computed before
\* the loop.  f.seek of a negative offset raises OSError inside the with
\* block; the exception leaves the generator and ends the response.
GenStart(r) ==
  /\ pc[r] = "gen_ready"
  /\ IF gen[r].start_byte < 0
     THEN /\ fh' = [fh EXCEPT ![r] = WithExit("exception")]
          /\ pc' = [pc EXCEPT ![r] = "error"]
          /\ gen' = gen
     ELSE /\ fh' = [fh EXCEPT ![r] = "open"]
          /\ LET num_chunks == NumChunks(gen[r].content_length)
             IN gen' = [gen EXCEPT ![r] =
                  [@ EXCEPT !.pos = gen[r].start_byte,
                            !.bytes_to_send = gen[r].content_length,
                            !.num_chunks = num_chunks,
                            !.delay_per_chunk =
                               DelayPerChunk(gen[r].target_duration, num_chunks)]]
          /\ pc' = [pc EXCEPT ![r] = "loop"]
  /\ UNCHANGED <<req, resp, emitted, received, connected, reads, sleeps, slept, upl>>

\* the loop test and, when it passes, one f.read: an empty read breaks out,
\* anything else is yielded.  Leaving the loop leaves the with block.
GenRead(r) ==
  /\ pc[r] = "loop"
  /\ IF gen[r].bytes_to_send > 0
     THEN LET chunk == FileRead(req[r].filename, gen[r].pos, ReadSize(gen[r].bytes_to_send))
          IN /\ reads' = [reads EXCEPT ![r] = @ + 1]
             /\ IF chunk.len = 0
                THEN /\ fh' = [fh EXCEPT ![r] = WithExit("normal")]
                     /\ pc' = [pc EXCEPT ![r] = "done"]
                     /\ UNCHANGED <<gen, emitted>>
                ELSE /\ gen' = [gen EXCEPT ![r] =
                           [@ EXCEPT !.chunk = chunk, !.pos = @ + chunk.len]]
                     /\ emitted' = [emitted EXCEPT ![r] = Append(@, chunk)]
                     /\ pc' = [pc EXCEPT ![r] = "yielded"]
                     /\ fh' = fh
     ELSE /\ fh' = [fh EXCEPT ![r] = WithExit("normal")]
          /\ pc' = [pc EXCEPT ![r] = "done"]
          /\ UNCHANGED <<gen, emitted, reads>>
  /\ UNCHANGED <<req, resp, received, connected, sleeps, slept, upl>>

\* the server writes the yielded chunk to the socket.  A write to a client
\* that has gone may still be taken by the socket buffer.
ServerWrite(r) ==
  /\ pc[r] = "yielded"
  /\ received' = [received EXCEPT ![r] = IF connected[r] THEN Append(@, gen[r].chunk) ELSE @]
  /\ pc' = [pc EXCEPT ![r] = "written"]
  /\ UNCHANGED <<req, resp, gen, fh, emitted, connected, reads, sleeps, slept, upl>>

\* the write fails: the server closes the response iterable, GeneratorExit is
\* thrown in at the yield and the with block is left
ServerWriteFail(r) ==
  /\ pc[r] = "yielded"
  /\ ~connected[r]
  /\ fh' = [fh EXCEPT ![r] = WithExit("GeneratorExit")]
  /\ pc' = [pc EXCEPT ![r] = "aborted"]
  /\ UNCHANGED <<req, resp, gen, emitted, received, connected, reads, sleeps, slept, upl>>

\* the generator is resumed after the yield: bytes_to_send -= len(chunk),
\* then time.sleep(delay_per_chunk) begins if the delay is positive
GenResume(r) ==
  /\ pc[r] = "written"
  /\ gen' = [gen EXCEPT ![r] = [@ EXCEPT !.bytes_to_send = @ - gen[r].chunk.len]]
  /\ pc' = [pc EXCEPT ![r] = IF gen[r].delay_per_chunk.num > 0 THEN "sleeping" ELSE "loop"]
  /\ UNCHANGED <<req, resp, fh, emitted, received, connected, reads, sleeps, slept, upl>>

\* time.sleep(delay_per_chunk) returns
GenWake(r) ==
  /\ pc[r] = "sleeping"
  /\ sleeps' = [sleeps EXCEPT ![r] = @ + 1]
  /\ slept' = [slept EXCEPT ![r] = @ + gen[r].delay_per_chunk.num]
  /\ pc' = [pc EXCEPT ![r] = "loop"]
  /\ UNCHANGED <<req, resp, gen, fh, emitted, received, connected, reads, upl>>

\* the client of a streamed download goes away
ClientDisconnect(r) ==
  /\ pc[r] \in StreamPcs
  /\ connected[r]
  /\ connected' = [connected EXCEPT ![r] = FALSE]
  /\ UNCHANGED <<pc, req, resp, gen, fh, emitted, received, reads, sleeps, slept, upl>>

\* ------------------------------------------------------- /upload_binary

upload_chunk_size == 1024

\* bytes.decode('utf-8'): the byte "xFF" stands for a byte that is not UTF-8
InvalidByte == "xFF"
Decode(data) ==
  [ok |-> \A i \in 1 .. Len(data) : data[i] # InvalidByte, val |-> data]

\* the Response of upload_binary once the body is read: the text of a body
\* shorter than 100 bytes (decode raising ends in a 500), else its length
UploadResponseAlt(data) ==
  IF Len(data) <= 100
  THEN IF Decode(data).ok THEN FixedResp(200, Decode(data).val) ELSE FixedResp(500, <<>>)
  ELSE FixedResp(200, Str(Len(data)))
UploadResponse(data) ==
  IF Len(data) < 100
  THEN IF Decode(data).ok THEN FixedResp(200, Decode(data).val) ELSE FixedResp(500, <<>>)
  ELSE FixedResp(200, Str(Len(data)))

\* upload_binary starts: data = bytearray()
UploadBinary(r) ==
  /\ pc[r] = "accepted"
  /\ req[r].endpoint = "upload_binary"
  /\ upl' = [upl EXCEPT ![r] = NoUpl]
  /\ pc' = [pc EXCEPT ![r] = "upload_loop"]
  /\ UNCHANGED <<req, resp, gen, fh, emitted, received, connected, reads, sleeps, slept>>

\* one request.stream.read(chunk_size): an empty read ends the loop and the
\* handler returns its Response; otherwise the chunk is kept and the sleep begins
UploadRead(r) ==
  /\ pc[r] = "upload_loop"
  /\ LET body == req[r].body
         chunk == SubSeq(body, upl[r].consumed + 1,
                         Min(Len(body), upl[r].consumed + upload_chunk_size))
     IN
     IF chunk = <<>>
     THEN /\ resp' = [resp EXCEPT ![r] = UploadResponse(upl[r].data)]
          /\ pc' = [pc EXCEPT ![r] = "responded"]
          /\ upl' = [upl EXCEPT ![r] = [@ EXCEPT !.read_lens = Append(@, 0)]]
     ELSE /\ upl' = [upl EXCEPT ![r] =
                 [consumed |-> @.consumed + Len(chunk), data |-> @.data \o chunk,
                  read_lens |-> Append(@.read_lens, Len(chunk))]]
          /\ pc' = [pc EXCEPT ![r] = "upload_sleep"]
          /\ resp' = resp
  /\ UNCHANGED <<req, gen, fh, emitted, received, connected, reads, sleeps, slept>>

\* time.sleep(0.05) returns
UploadWake(r) ==
  /\ pc[r] = "upload_sleep"
  /\ sleeps' = [sleeps EXCEPT ![r] = @ + 1]
  /\ slept' = [slept EXCEPT ![r] = @ + 50]
  /\ pc' = [pc EXCEPT ![r] = "upload_loop"]
  /\ UNCHANGED <<req, resp, gen, fh, emitted, received, connected, reads, upl>>

\* --------------------------------------------------------------------- JSON

\* Python values of json.loads: None, bool, int, str, list, dict
PyNone == [t |-> "null"]
JBool(b) == [t |-> "bool", v |-> b]
JNum(n) == [t |-> "num", v |-> n]
JStr(x) == [t |-> "str", v |-> x]
JArr(x) == [t |-> "arr", v |-> x]
JObj(x) == [t |-> "obj", v |-> x]

\* bool(v) of a Python value
Truthy(v) ==
  CASE v.t = "null" -> FALSE
    [] v.t = "bool" -> v.v
    [] v.t = "num" -> v.v # 0
    [] OTHER -> v.v # <<>>

Fail == [ok |-> FALSE, val |-> PyNone, next |-> 0]
Ok(v, n) == [ok |-> TRUE, val |-> v, next |-> n]

RECURSIVE SkipWs(_, _)
SkipWs(s, i) == IF i <= Len(s) /\ s[i] = " " THEN SkipWs(s, i + 1) ELSE i

RECURSIVE DigitsEnd(_, _)
DigitsEnd(s, i) == IF i <= Len(s) /\ IsDigit(s[i]) THEN DigitsEnd(s, i + 1) ELSE i

RECURSIVE StringEnd(_, _)
\* index of the closing quote of a string whose text starts at i, or 0
StringEnd(s, i) ==
  IF i > Len(s) \/ s[i] = "\\" \/ s[i] = InvalidByte THEN 0
  ELSE IF s[i] = "\"" THEN i
  ELSE StringEnd(s, i + 1)

\* d[key] = val of a dict kept as a sequence of <<key, value>>
DictPut(d, key, val) ==
  IF \E j \in 1 .. Len(d) : d[j][1] = key
  THEN [j \in 1 .. Len(d) |-> IF d[j][1] = key THEN <<key, val>> ELSE d[j]]
  ELSE Append(d, <<key, val>>)

RECURSIVE ParseValue(_, _)
RECURSIVE ParseElems(_, _, _)
RECURSIVE ParseMembers(_, _, _)

\* the JSON value that starts at s[i] (after blanks)
ParseValue(s, i0) ==
  LET i == SkipWs(s, i0)
  IN
  IF i > Len(s) THEN Fail
  ELSE IF StartsWith(Drop(s, i - 1), <<"n", "u", "l", "l">>) THEN Ok(PyNone, i + 4)
  ELSE IF StartsWith(Drop(s, i - 1), <<"t", "r", "u", "e">>) THEN Ok(JBool(TRUE), i + 4)
  ELSE IF StartsWith(Drop(s, i - 1), <<"f", "a", "l", "s", "e">>) THEN Ok(JBool(FALSE), i + 5)
  ELSE IF s[i] = "\"" THEN
    LET e == StringEnd(s, i + 1)
    IN IF e = 0 THEN Fail ELSE Ok(JStr(SubSeq(s, i + 1, e - 1)), e + 1)
  ELSE IF IsDigit(s[i]) \/ (s[i] = "-" /\ i < Len(s) /\ IsDigit(s[i + 1])) THEN
    LET d == IF s[i] = "-" THEN i + 1 ELSE i
        e == IF s[d] = "0" THEN d + 1 ELSE DigitsEnd(s, d)
        n == DigitsVal(SubSeq(s, d, e - 1), 0)
    IN Ok(JNum(IF s[i] = "-" THEN -n ELSE n), e)
  ELSE IF s[i] = "[" THEN
    LET j == SkipWs(s, i + 1)
    IN IF j <= Len(s) /\ s[j] = "]" THEN Ok(JArr(<<>>), j + 1)
       ELSE ParseElems(s, i + 1, <<>>)
  ELSE IF s[i] = "{" THEN
    LET j == SkipWs(s, i + 1)
    IN IF j <= Len(s) /\ s[j] = "}" THEN Ok(JObj(<<>>), j + 1)
       ELSE ParseMembers(s, i + 1, <<>>)
  ELSE Fail

\* value (, value)* ] from s[i]
ParseElems(s, i, acc) ==
  LET v == ParseValue(s, i)
  IN
  IF ~v.ok THEN Fail
  ELSE
    LET j == SkipWs(s, v.next)
    IN IF j > Len(s) THEN Fail
       ELSE IF s[j] = "]" THEN Ok(JArr(Append(acc, v.val)), j + 1)
       ELSE IF s[j] = "," THEN ParseElems(s, j + 1, Append(acc, v.val))
       ELSE Fail

\* "key" : value (, "key" : value)* } from s[i]
ParseMembers(s, i0, acc) ==
  LET i == SkipWs(s, i0)
      e == IF i <= Len(s) /\ s[i] = "\"" THEN StringEnd(s, i + 1) ELSE 0
      c == IF e = 0 THEN 0 ELSE SkipWs(s, e + 1)
  IN
  IF e = 0 \/ c > Len(s) \/ s[c] # ":" THEN Fail
  ELSE
    LET v == ParseValue(s, c + 1)
    IN
    IF ~v.ok THEN Fail
    ELSE
      LET j == SkipWs(s, v.next)
          d == DictPut(acc, SubSeq(s, i + 1, e - 1), v.val)
      IN IF j > Len(s) THEN Fail
         ELSE IF s[j] = "}" THEN Ok(JObj(d), j + 1)
         ELSE IF s[j] = "," THEN ParseMembers(s, j + 1, d)
         ELSE Fail

\* json.loads(data): one value and nothing after it; ok = FALSE when it raises
\* (bytes that are not UTF-8 raise as well)
JsonLoads(data) ==
  LET v == ParseValue(data, 1)
  IN IF Decode(data).ok /\ v.ok /\ SkipWs(data, v.next) > Len(data)
     THEN [ok |-> TRUE, val |-> v.val]
     ELSE [ok |-> FALSE, val |-> PyNone]

\* ------------------------------------------------------ the request object

\* request.is_json: the Content-Type is a JSON one
IsJson(q) == q.ctype = "json"

\* request.data: the body, unless it was consumed as form data
RequestData(q) == IF q.ctype = "form" THEN <<>> ELSE q.body

\* one key=value field of a urlencoded body
FormField(part) ==
  LET kv == Split(part, "=")
  IN <<kv[1], IF Len(kv) > 1 THEN Drop(part, Len(kv[1]) + 1) ELSE <<>>>>

RECURSIVE FormFields(_, _)
\* to_dict(): the first value of each key
FormFields(parts, acc) ==
  IF parts = <<>> THEN acc
  ELSE LET f == FormField(parts[1])
       IN IF parts[1] = <<>> \/ \E j \in 1 .. Len(acc) : acc[j][1] = f[1]
          THEN FormFields(Tail(parts), acc)
          ELSE FormFields(Tail(parts), Append(acc, f))

\* request.form.to_dict(): the fields of a urlencoded body, else empty
RequestForm(q) ==
  IF q.ctype = "form" THEN JObj(FormFields(Split(q.body, "&"), <<>>)) ELSE JObj(<<>>)

\* get_json_data(request).  request.json on a JSON Content-Type raises
\* BadRequest when the body does not parse; the fallback below it swallows
\* every exception.
get_json_data(q) ==
  IF IsJson(q)
  THEN LET j == JsonLoads(q.body)
       IN [raised |-> ~j.ok, val |-> j.val]
  ELSE LET j == JsonLoads(RequestData(q))
       IN [raised |-> FALSE,
           val |-> IF RequestData(q) # <<>> /\ j.ok THEN j.val ELSE PyNone]

\* a handler that returned: its payload as the response records it
EchoResp(status, data, json, form) ==
  [NoResp EXCEPT !.status = status, !.kind = "fixed", !.data = data, !.json = json,
                 !.form = form]

\* an exception left the handler: Flask answers for it (400 for BadRequest,
\* 500 for anything else)
ErrorResp(status) == [NoResp EXCEPT !.status = status, !.kind = "fixed"]

\* echo_post: data is decoded first, then the JSON is extracted
echo_post(q) ==
  LET data == Decode(RequestData(q))
      json_value == get_json_data(q)
  IN IF ~data.ok THEN ErrorResp(500)
     ELSE IF json_value.raised THEN ErrorResp(400)
     ELSE EchoResp(200, data.val, json_value.val, JObj(<<>>))

\* httpbin_put, httpbin_patch and httpbin_delete share their body:
\* 'data': request.data.decode('utf-8') if not json_data and not form_data else ""
httpbin_body(q) ==
  LET json_data == get_json_data(q)
      form_data == RequestForm(q)
      data == Decode(RequestData(q))
  IN IF json_data.raised THEN ErrorResp(400)
     ELSE IF ~Truthy(json_data.val) /\ ~Truthy(form_data)
     THEN IF data.ok THEN EchoResp(200, data.val, json_data.val, form_data)
          ELSE ErrorResp(500)
     ELSE EchoResp(200, <<>>, json_data.val, form_data)

Respond(r, endpoint, response) ==
  /\ pc[r] = "accepted"
  /\ req[r].endpoint = endpoint
  /\ resp' = [resp EXCEPT ![r] = response]
  /\ pc' = [pc EXCEPT ![r] = "responded"]
  /\ UNCHANGED <<req, gen, fh, emitted, received, connected, reads, sleeps, slept, upl>>

EchoPost(r) == Respond(r, "echo_post", echo_post(req[r]))
HttpbinPut(r) == Respond(r, "put", httpbin_body(req[r]))
HttpbinPatch(r) == Respond(r, "patch", httpbin_body(req[r]))
HttpbinDelete(r) == Respond(r, "delete", httpbin_body(req[r]))

\* ------------------------------------------------------------------- inputs

Offsets ==
  {0, 1, 9, 10, chunk_size - 1, chunk_size, chunk_size + 1, 2 * chunk_size,
   MaxChunks * chunk_size - 1, MaxChunks * chunk_size}
SuffixLens ==
  {1, 5, 10, 11, chunk_size, chunk_size + 1, chunk_size + 2, MaxChunks * chunk_size,
   MaxChunks * chunk_size + 1}

RangeAB(a, b) == BYTES_EQ \o Str(a) \o <<"-">> \o Str(b)
RangeFrom(a) == BYTES_EQ \o Str(a) \o <<"-">>
RangeSuffix(n) == BYTES_EQ \o <<"-">> \o Str(n)

\* Range values int() cannot parse
Unparsable ==
  {BYTES_EQ \o <<"a", "b", "c", "-", "5">>,
   BYTES_EQ \o <<"5", "-", "a", "b", "c">>,
   BYTES_EQ \o <<"1", "0", "-", "a", "b", "c">>,
   BYTES_EQ \o <<"5", "-", "1", "0", ",", "2", "0", "-", "3", "0">>,
   BYTES_EQ \o <<"-", "a", "b", "c">>}

RangeHeaders ==
  {NoHeader}
    \cup {Header(RangeAB(a, b)) : a \in Offsets, b \in Offsets}
    \cup {Header(RangeFrom(a)) : a \in Offsets}
    \cup {Header(RangeSuffix(n)) : n \in SuffixLens}
    \cup {Header(h) : h \in Unparsable}

FileRequests ==
  {[NoReq EXCEPT !.endpoint = "files", !.filename = f, !.range = h, !.no_content_length = n] :
     f \in FileNames, h \in RangeHeaders, n \in BOOLEAN}

\* a body of n bytes
UploadBody(n) == [i \in 1 .. n |-> DigitChars[(i % 10) + 1]]
UploadLens ==
  {0, 50, 99, 100, 150, upload_chunk_size, upload_chunk_size + 1, 2 * upload_chunk_size}
UploadRequests ==
  {[NoReq EXCEPT !.endpoint = "upload_binary", !.body = UploadBody(n)] : n \in UploadLens}
    \cup {[NoReq EXCEPT !.endpoint = "upload_binary", !.body = <<"h", "i", InvalidByte>>]}

Bodies ==
  {<<>>,
   <<"{", "\"", "t", "e", "s", "t", "\"", ":", "\"", "d", "a", "t", "a", "\"", "}">>,
   <<"{", "}">>,
   <<"[", "]">>,
   <<"[", "1", ",", " ", "2", "]">>,
   <<"0">>,
   <<"7">>,
   <<"f", "a", "l", "s", "e">>,
   <<"t", "r", "u", "e">>,
   <<"\"", "\"">>,
   <<"n", "u", "l", "l">>,
   <<"{", "b", "a", "d">>,
   <<"h", "e", "l", "l", "o">>,
   <<"a", "=", "1", "&", "b", "=", "2">>,
   <<"h", "i", InvalidByte>>}

EchoRequests ==
  {[NoReq EXCEPT !.endpoint = e, !.ctype = c, !.body = b] :
     e \in {"echo_post", "put", "patch", "delete"},
     c \in {"json", "form", "other"},
     b \in Bodies}

AllRequests == FileRequests \cup UploadRequests \cup EchoRequests

\* ------------------------------------------------------------ specification

Step(r) ==
  \/ ServeFile(r)
  \/ GenStart(r)
  \/ GenRead(r)
  \/ ServerWrite(r)
  \/ ServerWriteFail(r)
  \/ GenResume(r)
  \/ GenWake(r)
  \/ ClientDisconnect(r)
  \/ UploadBinary(r)
  \/ UploadRead(r)
  \/ UploadWake(r)
  \/ EchoPost(r)
  \/ HttpbinPut(r)
  \/ HttpbinPatch(r)
  \/ HttpbinDelete(r)

\* one request, any endpoint, any input
Next == \E r \in {1} : Accept(r, AllRequests) \/ Step(r)

Spec == Init /\ [][Next]_vars

\* Several requests in flight: a slow download and a slow upload
ConcRequests ==
  {[NoReq EXCEPT !.endpoint = "files", !.filename = "1MB-test.bin"],
   [NoReq EXCEPT !.endpoint = "upload_binary", !.body = UploadBody(50)]}

\* what the thread of request r does next
Progress(r) ==
  \/ ServeFile(r)
  \/ GenStart(r)
  \/ GenRead(r)
  \/ ServerWrite(r)
  \/ ServerWriteFail(r)
  \/ GenResume(r)
  \/ GenWake(r)
  \/ UploadBinary(r)
  \/ UploadRead(r)
  \/ UploadWake(r)

NextConc == \E r \in Reqs : Accept(r, ConcRequests) \/ Progress(r) \/ ClientDisconnect(r)

\* every thread is scheduled again and every sleep returns
SpecConc == Init /\ [][NextConc]_vars /\ \A r \in Reqs : WF_vars(Progress(r))

\* ------------------------------------------------------------------- claims

\* the handler of request r has returned (or its response has ended)
Handled(r) == pc[r] \notin {"idle", "accepted"}

IsFileReq(r) == req[r].endpoint = "files" /\ Exists(req[r].filename)

\* request r asks for bytes=a-b of an existing file, with 0 <= a <= b < size
ValidRange(r, a, b) ==
  /\ IsFileReq(r)
  /\ req[r].range = Header(RangeAB(a, b))
  /\ 0 <= a /\ a <= b /\ b < GetSize(req[r].filename)

\* what C1 says of the status, Content-Range and the bytes
C1_Span(r, a, b) ==
  /\ resp[r].status = 206
  /\ resp[r].content_range = Header(ContentRange(a, b, GetSize(req[r].filename)))
  /\ PrefixFrom(emitted[r], a)
  /\ TotalLen(emitted[r]) <= b - a + 1
  /\ pc[r] = "done" => Covers(emitted[r], a, b)

\* C1 as stated: bytes=A-B with 0 <= A <= B < totalSize is answered 206 with
\* Content-Range bytes A-B/totalSize and Content-Length B-A+1, and the chunks
\* emitted are file[A..B], in order, nothing missing or repeated.
C1_Original ==
  \A r \in Reqs : \A a \in Offsets : \A b \in Offsets :
    ValidRange(r, a, b) /\ Handled(r) =>
      /\ C1_Span(r, a, b)
      /\ resp[r].content_length = Header(Str(b - a + 1))

\* C1 amended: as C1, except that the Content-Length header is B-A+1 only
\* when the query does not carry no_content_length=true; with it the header
\* is left out (status, Content-Range and bytes are as stated).
C1_RangeServed ==
  \A r \in Reqs : \A a \in Offsets : \A b \in Offsets :
    ValidRange(r, a, b) /\ Handled(r) =>
      /\ C1_Span(r, a, b)
      /\ resp[r].content_length =
           IF req[r].no_content_length THEN NoHeader ELSE Header(Str(b - a + 1))

\* a range that starts inside the file and spans several chunks was served whole
C1_Witness ==
  \E r \in Reqs : \E a \in Offsets : \E b \in Offsets :
    /\ ValidRange(r, a, b)
    /\ a > 0
    /\ b < GetSize(req[r].filename) - 1
    /\ pc[r] = "done"
    /\ Len(emitted[r]) >= 2

\* C2: bytes=-N on an existing file resolves to start = totalSize - N and
\* end = totalSize - 1, delivers exactly the last N bytes, and never fails,
\* whatever N is relative to totalSize.
C2_SuffixServed ==
  \A r \in Reqs : \A n \in SuffixLens :
    IsFileReq(r) /\ req[r].range = Header(RangeSuffix(n)) /\ Handled(r) =>
      LET total_size == GetSize(req[r].filename)
      IN /\ resp[r].status = 206
         /\ gen[r].start_byte = total_size - n
         /\ gen[r].content_length = n
         /\ pc[r] # "error"
         /\ pc[r] = "done" => Covers(emitted[r], total_size - n, total_size - 1)

\* the range of request r after resolution
Resolved(r) == ResolveRange(req[r].range, GetSize(req[r].filename))

\* C3 as stated: a resolved range with start > end is answered 416 and the
\* response body is empty; the file is never opened and no chunk is emitted.
C3_Original ==
  \A r \in Reqs :
    IsFileReq(r) /\ Handled(r) /\ Resolved(r).start_byte > Resolved(r).end_byte =>
      /\ resp[r].status = 416
      /\ resp[r].body = <<>>
      /\ fh[r] = "none" /\ emitted[r] = <<>> /\ reads[r] = 0

\* C3 amended: a resolved range with start > end is answered 416; no byte of
\* the file is sent (the file is never opened, no chunk is emitted); the
\* response body is the fixed text "Requested Range Not Satisfiable".
C3_NotSatisfiable ==
  \A r \in Reqs :
    IsFileReq(r) /\ Handled(r) /\ Resolved(r).start_byte > Resolved(r).end_byte =>
      /\ resp[r].status = 416
      /\ resp[r].kind = "fixed"
      /\ resp[r].body = RANGE_NOT_SATISFIABLE
      /\ pc[r] = "responded"
      /\ fh[r] = "none" /\ emitted[r] = <<>> /\ received[r] = <<>> /\ reads[r] = 0

\* bytes=A-B with A > B inside a file that has those bytes was refused
C3_Witness ==
  \E r \in Reqs : \E a \in Offsets : \E b \in Offsets :
    /\ IsFileReq(r)
    /\ req[r].range = Header(RangeAB(a, b))
    /\ b < a /\ a < GetSize(req[r].filename)
    /\ resp[r].status = 416

\* C4: a Range value that cannot be parsed is ignored entirely: the file is
\* served in full (start 0, end totalSize-1) with status 200 and no
\* Content-Range, and no bound parsed before the failure survives.
C4_UnparsableIgnored ==
  \A r \in Reqs :
    /\ IsFileReq(r)
    /\ GetSize(req[r].filename) > 0
    /\ req[r].range.has /\ req[r].range.val \in Unparsable
    /\ Handled(r)
    => /\ resp[r].status = 200
       /\ resp[r].content_range = NoHeader
       /\ gen[r].start_byte = 0
       /\ gen[r].content_length = GetSize(req[r].filename)
       /\ pc[r] = "done" => Covers(emitted[r], 0, GetSize(req[r].filename) - 1)

\* C5: an existing file requested without a Range header is never answered
\* 416: the answer is 200 and exactly totalSize bytes are streamed, zero
\* chunks for an empty file; only 404 and 416 are terminal failures.
C5_NoRangeNever416 ==
  \A r \in Reqs :
    IsFileReq(r) /\ ~req[r].range.has /\ Handled(r) =>
      /\ resp[r].status = 200
      /\ resp[r].kind = "stream"
      /\ pc[r] = "done" => TotalLen(emitted[r]) = GetSize(req[r].filename)

StreamEnded(r) == req[r].endpoint = "files" /\ pc[r] \in {"done", "aborted", "error"}

\* C8 as stated: the handle is closed on every exit path, and from the
\* moment the client has disconnected the stream does no further read and
\* no further sleep.
C8_Original ==
  /\ [](\A r \in Reqs : StreamEnded(r) => fh[r] = "closed")
  /\ [][\A r \in Reqs : ~connected[r] => reads'[r] = reads[r] /\ sleeps'[r] = sleeps[r]]_vars

\* C8 amended: the handle is closed on every exit path (full delivery, an
\* error in the with block, a write that fails after the client left), and
\* from the moment a write to the departed client has failed the stream does
\* no further read and no further sleep; until a write fails the loop goes on.
C8_ClosedAndAborted ==
  /\ [](\A r \in Reqs : StreamEnded(r) => fh[r] = "closed")
  /\ [](\A r \in Reqs : fh[r] = "open" => pc[r] \in StreamPcs)
  /\ [][\A r \in Reqs : pc[r] = "aborted" =>
          pc'[r] = "aborted" /\ reads'[r] = reads[r] /\ sleeps'[r] = sleeps[r]
          /\ fh'[r] = "closed"]_vars

\* a stream was cut by a failed write after chunks had been read
C8_Witness ==
  \E r \in Reqs :
    /\ pc[r] = "aborted"
    /\ ~connected[r]
    /\ fh[r] = "closed"
    /\ reads[r] >= 2
    /\ gen[r].bytes_to_send > 0

\* C9: JSON extraction never raises, so POST /echo_post always answers 200,
\* with json the parsed body when it is valid JSON and null otherwise.
C9_EchoPostAlways200 ==
  \A r \in Reqs :
    req[r].endpoint = "echo_post" /\ Handled(r) =>
      /\ resp[r].status = 200
      /\ resp[r].json =
           IF JsonLoads(RequestData(req[r])).ok
           THEN JsonLoads(RequestData(req[r])).val
           ELSE PyNone

\* C10: for PUT /put, PATCH /patch and DELETE /delete, data is the raw body
\* only when neither JSON nor form data was parsed, and the empty string
\* whenever the body parsed as JSON (falsy values and null included) or form
\* data was parsed.
C10_DataPrecedence ==
  \A r \in Reqs :
    req[r].endpoint \in {"put", "patch", "delete"} /\ Handled(r) /\ resp[r].status = 200 =>
      resp[r].data =
        IF JsonLoads(RequestData(req[r])).ok \/ RequestForm(req[r]).v # <<>>
        THEN <<>>
        ELSE RequestData(req[r])

\* everything the model keeps for request q
Local(q) ==
  <<pc[q], req[q], resp[q], gen[q], fh[q], emitted[q], received[q], connected[q],
    reads[q], sleeps[q], slept[q], upl[q]>>

Sleeping(r) == pc[r] \in {"sleeping", "upload_sleep"}
InFlight(q) == pc[q] \notin {"idle"} \cup Terminal

\* C7: a request asleep in the file streamer's chunk loop or in
\* upload_binary's read loop suspends only itself: while it sleeps a new
\* connection can be accepted and every other request in flight can take its
\* next step; a step of one request changes nothing of another; and every
\* accepted request completes.
C7_SleepSuspendsOnlyItself ==
  /\ [](\A r \in Reqs : Sleeping(r) =>
          \A q \in Reqs \ {r} :
            /\ pc[q] = "idle" => ENABLED Accept(q, ConcRequests)
            /\ InFlight(q) => ENABLED Progress(q))
  /\ [][\E r \in Reqs : \A q \in Reqs \ {r} : Local(q)' = Local(q)]_vars
  /\ \A q \in Reqs : (pc[q] = "accepted") ~> (pc[q] \in Terminal)

\* a download and an upload are asleep at the same time
C7_Witness ==
  \E r \in Reqs : \E q \in Reqs :
    /\ pc[r] = "sleeping"
    /\ pc[q] = "upload_sleep"

\* number of non-empty reads among the reads made so far
RECURSIVE NonEmpty(_)
NonEmpty(lens) ==
  IF lens = <<>> THEN 0 ELSE (IF lens[1] > 0 THEN 1 ELSE 0) + NonEmpty(Tail(lens))

InLoop(r) == IsFileReq(r) /\ pc[r] \in {"loop", "yielded", "written", "sleeping", "done", "aborted"}

\* C12: the chunk loop of serve_file's generator always terminates, after at
\* most numChunks = ceil(contentLength / 65536) emitted chunks: in every
\* state 0 <= bytes_to_send <= contentLength, every emitted chunk is
\* non-empty and at most 65536 bytes, the bytes emitted never exceed
\* contentLength, and the loop is left exactly when bytes_to_send is 0 or a
\* read returns no data (otherwise the chunk read is yielded).  Termination
\* is stated as: the generator is never stuck before it has ended, and each
\* iteration it completes makes bytes_to_send strictly smaller.
C12_ChunkLoopTerminates ==
  /\ [](\A r \in Reqs : InLoop(r) =>
          /\ 0 <= gen[r].bytes_to_send
          /\ gen[r].bytes_to_send <= gen[r].content_length
          /\ \A i \in 1 .. Len(emitted[r]) :
               emitted[r][i].len > 0 /\ emitted[r][i].len <= 65536
          /\ TotalLen(emitted[r]) <= gen[r].content_length
          /\ gen[r].num_chunks * 65536 >= gen[r].content_length
          /\ (gen[r].num_chunks - 1) * 65536 < gen[r].content_length
          /\ Len(emitted[r]) <= gen[r].num_chunks
          /\ pc[r] = "loop" =>
               gen[r].bytes_to_send = gen[r].content_length - TotalLen(emitted[r]))
  /\ [][\A r \in Reqs : pc[r] = "loop" /\ pc'[r] # "loop" =>
          LET stop == gen[r].bytes_to_send = 0 \/ gen[r].pos >= GetSize(req[r].filename)
          IN /\ pc'[r] = "done" <=> stop
             /\ pc'[r] = "yielded" <=> ~stop]_vars
  /\ [][\A r \in Reqs : pc[r] = "written" /\ pc'[r] # "written" =>
          gen'[r].bytes_to_send < gen[r].bytes_to_send]_vars
  /\ [](\A r \in Reqs : IsFileReq(r) /\ pc[r] \in StreamPcs => ENABLED Progress(r))

\* a range of three chunks, the last one short, was streamed to the end
C12_Witness ==
  \E r \in Reqs :
    /\ IsFileReq(r)
    /\ pc[r] = "done"
    /\ gen[r].bytes_to_send = 0
    /\ Len(emitted[r]) = 3
    /\ gen[r].num_chunks = 3
    /\ emitted[r][3].len < 65536

====
